---- MODULE Spec2Model ----
(***************************************************************************)
(* Model of src/text2speech-v1.py: the TTSBatchProcessor class.            *)
(*                                                                         *)
(* Text is a sequence of characters, each a string: the character itself,  *)
(* or "U+XXXX" for a character a string of this language cannot hold.      *)
(* Time is counted in whole seconds by the clock `now`.  A Python float is *)
(* an IEEE-754 double: it is held as [m, e], standing for m * 2^e, with m  *)
(* an odd natural number written as its binary digits, lowest first, and   *)
(* 0.0 as [m |-> <<>>, e |-> 0]; every float operation rounds its exact    *)
(* result to 53 significant bits, a tie going to the even significand.     *)
(* The synthesis engine (self.tts.infer) and the wave file the duration    *)
(* probe opens are the environment.                                        *)
(* One processor object is modelled from its construction on; process_batch*)
(* may be invoked on it again after it has returned.  An exception of the  *)
(* engine leaves process_batch and, uncaught in main(), ends the process.  *)
(***************************************************************************)
EXTENDS Integers, Sequences, FiniteSets, TLC

\* ------------------------------------------------------------------ bounds
MaxLines == 3
\* invocations of process_batch on the one processor
MaxRuns == 2
\* longest string given to sanitize_filename in SanSpec
MaxSanLen == 4

\* ------------------------------------------------------- program constants
\* text[:10], line 137
PrefixLen == 10
\* total_elapsed // 60 and % 60, lines 273-274
SecondsPerMinute == 60

\* record['line_num'] of process_full_text (the literal at line 247)
FullTextLabel == "WHOLE_TEXT"

\* the characters str.strip() removes: those for which str.isspace() holds
Whitespace ==
  { " ", "\t", "\n", "\r", "\f", "U+000B", "U+001C", "U+001D", "U+001E",
    "U+001F", "U+0085", "U+00A0", "U+1680", "U+2000", "U+2001", "U+2002",
    "U+2003", "U+2004", "U+2005", "U+2006", "U+2007", "U+2008", "U+2009",
    "U+200A", "U+2028", "U+2029", "U+202F", "U+205F", "U+3000" }

\* bits after the leading one in the significand of a Python float
MantissaBits == 52

\* the character class of the re.sub at line 99
IllegalChars == {"<", ">", ":", "\"", "/", "\\", "|", "?", "*"}

\* ------------------------------------------------------------ environment
\* candidate physical lines of input.txt, without their line terminator:
\* a blank line, and two lines of different text and length whose first
\* ten characters sanitize to the same prefix
BlankLine == <<" ", "\f", "\t">>
LineA == <<"b", "b", ":", "b", "b", "b", "b", "b", "b", " ", "c", "d">>
LineB == <<" ", "b", "b", "b", "b", "b", "b", "b", "b", "?", " ">>
LineSet == {BlankLine, LineA, LineB}

\* contents of input.txt: up to MaxLines lines
Files == UNION { [1..n -> LineSet] : n \in 0..MaxLines }

\* seconds one self.tts.infer call may take
InferTimes == {2}

\* what wave.open finds at output_path: an unreadable file, or a header
ProbeOutcomes ==
  { [ok |-> FALSE, frames |-> 0, rate |-> 1],
    [ok |-> TRUE,  frames |-> 0, rate |-> 2],
    [ok |-> TRUE,  frames |-> 3, rate |-> 2] }

\* values of the start_line_num argument
Offsets == {1, 10}

SanAlphabet == {"a", " ", "?", "\f"}
SanStrings == UNION { [1..n -> SanAlphabet] : n \in 0..MaxSanLen }

VARIABLES
  read_by_line,        \* self.read_by_line
  start_line_num,      \* self.start_line_num
  total_char_count,    \* self.total_char_count
  processing_records,  \* self.processing_records
  total_start_time,    \* self.total_start_time
  log,                 \* the lines log_print has written to self.log_file
  pc,                  \* "idle" | "infer" | "probe" | "crashed" | "san"
  file,                \* contents of input.txt read by the current invocation
  idx,                 \* position of the `for line in f` loop
  line_counter,        \* local line_counter of process_batch
  cur,                 \* locals of process_single_line / process_full_text
  now,                 \* wall clock, seconds
  infer_calls,         \* calls of self.tts.infer made by the current invocation
  entry,               \* accumulator as process_batch found it on entry
  runs,                \* invocations of process_batch so far
  san                  \* SanSpec: argument and results of sanitize_filename

vars == <<read_by_line, start_line_num, total_char_count, processing_records,
          total_start_time, log, pc, file, idx, line_counter, cur, now,
          infer_calls, entry, runs, san>>

\* ---------------------------------------------------------------- strings
Min(a, b) == IF a < b THEN a ELSE b

\* text[:n]
Take(text, n) == SubSeq(text, 1, Min(n, Len(text)))

RECURSIVE LStrip(_)
LStrip(s) ==
  IF s # <<>> /\ Head(s) \in Whitespace THEN LStrip(Tail(s)) ELSE s

RECURSIVE RStrip(_)
RStrip(s) ==
  IF s # <<>> /\ s[Len(s)] \in Whitespace
  THEN RStrip(SubSeq(s, 1, Len(s) - 1))
  ELSE s

\* str.strip()
Strip(s) == RStrip(LStrip(s))

IsLegalChar(c) == c \notin IllegalChars

\* re.sub(r'[<>:"/\\|?*]', '', text)
ReSubIllegal(text) == SelectSeq(text, IsLegalChar)

\* a plausible slip: trim first, then delete the illegal characters
sanitize_filename_strip_first(text) == ReSubIllegal(Strip(text))

sanitize_filename(text) == Strip(ReSubIllegal(text))

DigitChars == <<"0", "1", "2", "3", "4", "5", "6", "7", "8", "9">>

\* str(n) of a natural number, as an f-string formats it
RECURSIVE Digits(_)
Digits(n) ==
  IF n < 10 THEN <<DigitChars[n + 1]>>
  ELSE Digits(n \div 10) \o <<DigitChars[(n % 10) + 1]>>

\* datetime.now().strftime('%Y%m%d_%H%M%S'): the clock at second resolution
Timestamp(t) == Digits(t)

WavExt == <<".", "w", "a", "v">>
FullTextPrefix == <<"f", "u", "l", "l", "_", "t", "e", "x", "t", "_">>

\* a plausible slip: the ordinal left out of the per-line name
FilenameWithoutOrdinal(line_num, text, is_full_text, t) ==
  LET safe_prefix == sanitize_filename(Take(text, PrefixLen)) IN
  IF is_full_text
  THEN FullTextPrefix \o Timestamp(t) \o <<"_">> \o safe_prefix \o WavExt
  ELSE safe_prefix \o WavExt

\* output_filename of generate_output_filename; t is the clock at the call
OutputFilename(line_num, text, is_full_text, t) ==
  LET safe_prefix == sanitize_filename(Take(text, PrefixLen)) IN
  IF is_full_text
  THEN FullTextPrefix \o Timestamp(t) \o <<"_">> \o safe_prefix \o WavExt
  ELSE Digits(line_num) \o <<"_">> \o safe_prefix \o WavExt

\* os.path.join(self.output_dir, output_filename)
OutputPath(filename) == <<"outputs", "/">> \o filename

\* ------------------------------------------------------------ input file
\* the string `for line in f` yields for a physical line
RawLine(l) == l \o <<"\n">>

\* index of the first line at or after i that is not empty after strip();
\* 0 when there is none
RECURSIVE NextUnitIdx(_, _)
NextUnitIdx(f, i) ==
  IF i > Len(f) THEN 0
  ELSE IF Strip(RawLine(f[i])) # <<>> THEN i
  ELSE NextUnitIdx(f, i + 1)

\* the list `lines` of the whole-text branch: stripped, non-empty, in order
RECURSIVE StrippedLines(_)
StrippedLines(f) ==
  IF f = <<>> THEN <<>>
  ELSE LET s == Strip(RawLine(Head(f))) IN
       IF s # <<>> THEN <<s>> \o StrippedLines(Tail(f))
       ELSE StrippedLines(Tail(f))

\* a plausible slip: join without a separator
JoinNoSeparator(lines) ==
  IF lines = <<>> THEN <<>>
  ELSE LET F[i \in 1..Len(lines)] ==
             IF i = 1 THEN lines[1] ELSE F[i - 1] \o lines[i]
       IN F[Len(lines)]

\* ' '.join(lines)
JoinLines(lines) ==
  IF lines = <<>> THEN <<>>
  ELSE LET F[i \in 1..Len(lines)] ==
             IF i = 1 THEN lines[1] ELSE F[i - 1] \o <<" ">> \o lines[i]
       IN F[Len(lines)]

\* a plausible slip: the ordinal one too high
OutputLineNumOffByOne(start, counter) == start + counter

\* output_line_num = self.start_line_num + (line_counter - 1)
OutputLineNum(start, counter) == start + (counter - 1)

\* ---------------------------------------------------------------- report
\* value standing for a ZeroDivisionError raised while a ratio is computed
ZeroDivision == 0 - 1

\* ---- natural numbers as binary digits, lowest first, the highest digit 1;
\* ---- zero is <<>>
Max(a, b) == IF a > b THEN a ELSE b

RECURSIVE Bits(_)
Bits(n) == IF n = 0 THEN <<>> ELSE <<n % 2>> \o Bits(n \div 2)

RECURSIVE Val(_)
Val(b) == IF b = <<>> THEN 0 ELSE b[1] + 2 * Val(Tail(b))

Bit(b, i) == IF i >= 1 /\ i <= Len(b) THEN b[i] ELSE 0

\* drop the zeros above the highest 1
Trim(b) ==
  IF \A i \in 1..Len(b) : b[i] = 0 THEN <<>>
  ELSE SubSeq(b, 1, CHOOSE i \in 1..Len(b) :
                      b[i] = 1 /\ \A j \in (i + 1)..Len(b) : b[j] = 0)

\* a < b
Less(a, b) ==
  \/ Len(a) < Len(b)
  \/ /\ Len(a) = Len(b)
     /\ \E i \in 1..Len(a) :
          a[i] < b[i] /\ \A j \in (i + 1)..Len(a) : a[j] = b[j]

\* the carry into digit i of a + b
Carry(a, b, i) ==
  \E j \in 1..(i - 1) :
    /\ Bit(a, j) + Bit(b, j) = 2
    /\ \A l \in (j + 1)..(i - 1) : Bit(a, l) + Bit(b, l) >= 1

\* a + b
Add(a, b) ==
  Trim([i \in 1..(Max(Len(a), Len(b)) + 1) |->
          (Bit(a, i) + Bit(b, i) + (IF Carry(a, b, i) THEN 1 ELSE 0)) % 2])

\* the borrow from digit i of a - b
Borrow(a, b, i) ==
  \E j \in 1..(i - 1) :
    /\ Bit(a, j) < Bit(b, j)
    /\ \A l \in (j + 1)..(i - 1) : Bit(a, l) <= Bit(b, l)

\* a - b, for a >= b
Sub(a, b) ==
  Trim([i \in 1..Len(a) |->
          (2 + Bit(a, i) - Bit(b, i) - (IF Borrow(a, b, i) THEN 1 ELSE 0)) % 2])

\* a * 2^k
Shl(a, k) == IF a = <<>> \/ k = 0 THEN a ELSE [i \in 1..k |-> 0] \o a

\* ---- floats
\* the float 0.0
ZeroFloat == [m |-> <<>>, e |-> 0]

\* the float that is exactly m * 2^e, for m of at most MantissaBits + 1 bits
Canon(m, e) ==
  IF m = <<>> THEN ZeroFloat
  ELSE LET z == CHOOSE i \in 1..Len(m) :
                  m[i] = 1 /\ \A j \in 1..(i - 1) : m[j] = 0
       IN [m |-> SubSeq(m, z, Len(m)), e |-> e + (z - 1)]

\* the float nearest to (n + f) * 2^e, where 0 <= f < 1 and sticky tells
\* f > 0: round to nearest, a tie to the even significand.  With sticky set
\* n has more than MantissaBits + 1 bits.
RoundToFloat(n, e, sticky) ==
  IF Len(n) <= MantissaBits + 1 THEN Canon(n, e)
  ELSE LET k == Len(n) - (MantissaBits + 1)
           q == SubSeq(n, k + 1, Len(n))
           rest == sticky \/ \E i \in 1..(k - 1) : n[i] = 1
           up == n[k] = 1 /\ (rest \/ q[1] = 1)
       IN Canon(IF up THEN Add(q, <<1>>) ELSE q, e + k)

\* Long division of N by D.  A state [r, q, i, k] has brought down the
\* digits of N above N[i] and k zeros below the binary point:
\* (N \div 2^i) * 2^k = q * D + r.
\* the division is over: exact, or a bit more than the rounding needs
DivDone(st) ==
  st.i = 0 /\ (st.r = <<>> \/ Len(st.q) >= MantissaBits + 2)

\* the next digit is brought down
DivStep(N, D, st) ==
  IF DivDone(st) THEN st
  ELSE LET inb == IF st.i > 0 THEN N[st.i] ELSE 0
           r1 == IF st.r = <<>> /\ inb = 0 THEN <<>> ELSE <<inb>> \o st.r
           ge == ~Less(r1, D)
       IN [ r |-> IF ge THEN Sub(r1, D) ELSE r1,
            q |-> IF st.q = <<>> /\ ~ge THEN <<>>
                  ELSE <<IF ge THEN 1 ELSE 0>> \o st.q,
            i |-> IF st.i > 0 THEN st.i - 1 ELSE 0,
            k |-> IF st.i > 0 THEN st.k ELSE st.k + 1 ]

\* n steps of the division
RECURSIVE DivSteps(_, _, _, _)
DivSteps(N, D, st, n) ==
  IF DivDone(st) \/ n = 0 THEN st
  ELSE IF n = 1 THEN DivStep(N, D, st)
  ELSE DivSteps(N, D, DivSteps(N, D, st, n \div 2), n - (n \div 2))

\* the float (N / D) * 2^s of a float division, for naturals N and D > 0
FloatDiv(N, D, s) ==
  LET st == DivSteps(N, D, [r |-> <<>>, q |-> <<>>, i |-> Len(N), k |-> 0],
                     Len(N) + Len(D) + MantissaBits + 2)
  IN RoundToFloat(st.q, s - st.k, st.r # <<>>)

\* the float x + y
FloatAdd(x, y) ==
  IF x.m = <<>> THEN y
  ELSE IF y.m = <<>> THEN x
  ELSE LET e0 == IF x.e < y.e THEN x.e ELSE y.e
       IN RoundToFloat(Add(Shl(x.m, x.e - e0), Shl(y.m, y.e - e0)), e0, FALSE)

\* f'{x:.2f}' in hundredths: the exact value of the float x rounded to two
\* decimals, a value exactly halfway going to the even hundredth
Format2(x) ==
  LET c == Add(Add(Shl(x.m, 6), Shl(x.m, 5)), Shl(x.m, 2))
      k == 0 - x.e
      q == SubSeq(c, k + 1, Len(c))
      rest == \E i \in 1..Min(k - 1, Len(c)) : c[i] = 1
      up == Bit(c, k) = 1 /\ (rest \/ Bit(q, 1) = 1)
  IN IF x.e >= 0 THEN Val(Shl(c, x.e))
     ELSE Val(q) + (IF up THEN 1 ELSE 0)

RECURSIVE Pow2(_)
Pow2(k) == IF k = 0 THEN 1 ELSE 2 * Pow2(k - 1)

\* largest k with d * 2^k <= n, for n >= d > 0
RECURSIVE Log2Up(_, _, _)
Log2Up(n, d, k) ==
  IF n \div Pow2(k + 1) >= d THEN Log2Up(n, d, k + 1) ELSE k

\* smallest j with n * 2^j >= d, for 0 < n < d
RECURSIVE Log2Down(_, _, _)
Log2Down(n, d, j) == IF n * Pow2(j) >= d THEN j ELSE Log2Down(n, d, j + 1)

\* (x * 2^e) mod d
RECURSIVE MulPow2Mod(_, _, _)
MulPow2Mod(x, e, d) ==
  IF e = 0 THEN x % d ELSE MulPow2Mod((2 * (x % d)) % d, e - 1, d)

\* sign of (the float n / d) - (the number n / d), for n > 0, d > 0: the
\* float is n / d rounded to MantissaBits + 1 significant bits
FloatError(n, d) ==
  LET e == IF n >= d THEN MantissaBits - Log2Up(n, d, 0)
                     ELSE MantissaBits + Log2Down(n, d, 1)
      rem == MulPow2Mod(n, e, d)
  IN IF rem = 0 THEN 0 ELSE IF 2 * rem < d THEN 0 - 1 ELSE 1

\* f'{n / d:.2f}' in hundredths: the float n / d rounded to two decimals,
\* a float that lies exactly halfway going to the even hundredth
Quotient(n, d) ==
  LET h == (100 * n) \div d IN
  IF 200 * n < (2 * h + 1) * d THEN h
  ELSE IF 200 * n > (2 * h + 1) * d THEN h + 1
  ELSE IF FloatError(n, d) < 0 THEN h
  ELSE IF FloatError(n, d) > 0 THEN h + 1
  ELSE IF h % 2 = 0 THEN h ELSE h + 1

\* a plausible slip: the division without its guard
RatioUnguarded(n, d) == IF d = 0 THEN ZeroDivision ELSE Quotient(n, d)

\* `n / d if d > 0 else 0.0`
Ratio(n, d) == IF d > 0 THEN Quotient(n, d) ELSE 0

\* total_audio_duration after the loop of lines 318-325
RECURSIVE SumAudio(_)
SumAudio(recs) ==
  IF recs = <<>> THEN ZeroFloat
  ELSE FloatAdd(SumAudio(SubSeq(recs, 1, Len(recs) - 1)),
               recs[Len(recs)].audio_duration)

\* f'{x / y if y > 0 else 0.0:.2f}' in hundredths, for an integer x and a
\* float y.  Where y is a fraction of two small integers the float x / y is
\* the float of a quotient of integers; otherwise it is divided out in full.
RatioToFloat(x, y) ==
  IF Len(y.m) <= 15 /\ y.e >= 0 - 8 /\ y.e <= 8 /\ x < Pow2(15)
  THEN IF y.e < 0 THEN Ratio(x * Pow2(0 - y.e), Val(y.m))
                  ELSE Ratio(x, Val(y.m) * Pow2(y.e))
  ELSE IF y.m # <<>> THEN Format2(FloatDiv(Bits(x), y.m, 0 - y.e))
  ELSE 0

ReportRow(record) ==
  [ line_num       |-> record.line_num,
    char_count     |-> record.char_count,
    audio_duration |-> record.audio_duration,
    elapsed_time   |-> record.elapsed_time,
    ratio          |-> Ratio(record.elapsed_time, record.char_count),
    time_ratio     |-> RatioToFloat(record.elapsed_time, record.audio_duration) ]

\* the table generate_report prints
GenerateReport(recs, total, total_elapsed) ==
  [ rows                 |-> [i \in 1..Len(recs) |-> ReportRow(recs[i])],
    total_char_count     |-> total,
    total_audio_duration |-> SumAudio(recs),
    total_elapsed        |-> total_elapsed,
    total_ratio          |-> Ratio(total_elapsed, total),
    total_time_ratio     |-> RatioToFloat(total_elapsed, SumAudio(recs)) ]

\* the line print_summary prints
PrintSummary(total, total_elapsed) ==
  [ total_char_count |-> total,
    total_minutes    |-> total_elapsed \div SecondsPerMinute,
    total_seconds    |-> total_elapsed % SecondsPerMinute ]

LogEntry(kind, val) == [kind |-> kind, val |-> val]

\* what print_summary and generate_report write to the log (lines 411-414)
CompletionLog(recs, total, total_elapsed) ==
  << LogEntry("summary", PrintSummary(total, total_elapsed)),
     LogEntry("report", GenerateReport(recs, total, total_elapsed)) >>

\* duration and warning of get_audio_duration: frames / float(sample_rate),
\* or 0.0 with a warning when wave.open or the division raises
GetAudioDuration(outcome) ==
  IF outcome.ok /\ outcome.rate # 0
  THEN [ duration |-> FloatDiv(Bits(outcome.frames), Bits(outcome.rate), 0),
         warned   |-> FALSE ]
  ELSE [duration |-> ZeroFloat, warned |-> TRUE]

NoUnit ==
  [ line_num |-> 0, char_count |-> 0, output_filename |-> <<>>,
    output_path |-> <<>>, start_time |-> 0, elapsed |-> 0 ]

NoSan == [stage |-> 0, text |-> <<>>, once |-> <<>>, twice |-> <<>>]

NoEntry == [n_records |-> 0, total_char_count |-> 0, log_len |-> 0]

\* ------------------------------------------------------------------ state
\* the processor after __init__ (lines 68-73), before process_batch
Init ==
  /\ read_by_line \in BOOLEAN
  /\ start_line_num \in Offsets
  /\ total_char_count = 0
  /\ processing_records = <<>>
  /\ total_start_time = 0
  /\ log = <<>>
  /\ pc = "idle"
  /\ file = <<>>
  /\ idx = 0
  /\ line_counter = 0
  /\ cur = NoUnit
  /\ now = 0
  /\ infer_calls = <<>>
  /\ entry = NoEntry
  /\ runs = 0
  /\ san = NoSan

\* a plausible slip: the new record put in front
PrependRecord(recs, record) == <<record>> \o recs

\* self.processing_records.append(record)
AppendRecord(recs, record) == Append(recs, record)

SetLastStatus(calls, status) ==
  [calls EXCEPT ![Len(calls)] = [@ EXCEPT !.status = status]]

\* process_single_line(output_line_num, text) up to its call of self.tts.infer
\* (lines 374-184) for the line at position i
StartLine(f, i, counter, lg, calls) ==
  LET text == Strip(RawLine(f[i]))
      n == OutputLineNum(start_line_num, counter)
      fname == OutputFilename(n, text, FALSE, now)
      cc == Len(text)
  IN /\ idx' = i
     /\ line_counter' = counter
     /\ total_char_count' = total_char_count + cc
     /\ cur' = [ line_num |-> n, char_count |-> cc, output_filename |-> fname,
                 output_path |-> OutputPath(fname), start_time |-> now,
                 elapsed |-> 0 ]
     /\ log' = lg \o << LogEntry("unit_start",
                   [line_num |-> n, char_count |-> cc, output_filename |-> fname]) >>
     /\ infer_calls' = Append(calls,
          [text |-> text, output_path |-> OutputPath(fname), status |-> "pending"])
     /\ pc' = "infer"

\* process_full_text(full_text) up to its call of self.tts.infer (lines 217-236)
StartFullText(text, lg, calls) ==
  LET fname == OutputFilename(0, text, TRUE, now)
      cc == Len(text)
  IN /\ total_char_count' = cc
     /\ cur' = [ line_num |-> FullTextLabel, char_count |-> cc,
                 output_filename |-> fname, output_path |-> OutputPath(fname),
                 start_time |-> now, elapsed |-> 0 ]
     /\ log' = lg \o << LogEntry("unit_start",
                   [line_num |-> FullTextLabel, char_count |-> cc,
                    output_filename |-> fname]) >>
     /\ infer_calls' = Append(calls,
          [text |-> text, output_path |-> OutputPath(fname), status |-> "pending"])
     /\ pc' = "infer"
     /\ UNCHANGED <<idx, line_counter>>

\* the end of process_batch (lines 406-416): summary and report, then return
Complete(recs, lg, calls, tstart) ==
  /\ log' = lg \o CompletionLog(recs, total_char_count, now - tstart)
  /\ pc' = "idle"
  /\ cur' = NoUnit
  /\ infer_calls' = calls
  /\ UNCHANGED total_char_count

\* the loop of lines 369-381 from position `from` on: blank lines are skipped,
\* the next non-empty line is submitted, and past the last line the run ends
LoopFrom(f, from, counter, recs, lg, calls, tstart) ==
  LET i == NextUnitIdx(f, from) IN
  IF i = 0
  THEN /\ Complete(recs, lg, calls, tstart)
       /\ idx' = Len(f) + 1
       /\ line_counter' = counter
  ELSE StartLine(f, i, counter + 1, lg, calls)

\* process_batch is called with input.txt holding f (lines 352-404); it runs
\* to its first call of the engine, or to its end when there is no unit
ProcessBatch(f) ==
  /\ pc = "idle"
  /\ runs < MaxRuns
  /\ runs' = runs + 1
  /\ file' = f
  /\ total_start_time' = now
  /\ entry' = [ n_records |-> Len(processing_records),
                total_char_count |-> total_char_count,
                log_len |-> Len(log) ]
  /\ LET lg == log \o << LogEntry("header", now),
                         LogEntry("mode", read_by_line) >>
     IN IF read_by_line
        THEN LoopFrom(f, 1, 0, processing_records, lg, <<>>, now)
        ELSE LET full_text == JoinLines(StrippedLines(f)) IN
             IF full_text # <<>>
             THEN StartFullText(full_text, lg, <<>>)
             ELSE /\ Complete(processing_records,
                              lg \o << LogEntry("warn_empty", 0) >>, <<>>, now)
                  /\ UNCHANGED <<idx, line_counter>>
  /\ UNCHANGED <<read_by_line, start_line_num, processing_records, now, san>>

\* self.tts.infer returns after d seconds, having written output_path
\* (lines 179-188, 231-240)
InferReturn(d) ==
  /\ pc = "infer"
  /\ now' = now + d
  /\ cur' = [cur EXCEPT !.elapsed = now' - cur.start_time]
  /\ infer_calls' = SetLastStatus(infer_calls, "returned")
  /\ pc' = "probe"
  /\ UNCHANGED <<read_by_line, start_line_num, total_char_count,
                 processing_records, total_start_time, log, file, idx,
                 line_counter, entry, runs, san>>

\* a plausible slip: the exception swallowed and the batch carried on
InferRaiseSwallowed ==
  /\ pc = "infer"
  /\ IF read_by_line
     THEN LoopFrom(file, idx + 1, line_counter, processing_records, log,
                   SetLastStatus(infer_calls, "raised"), total_start_time)
     ELSE /\ Complete(processing_records, log,
                      SetLastStatus(infer_calls, "raised"), total_start_time)
          /\ UNCHANGED <<idx, line_counter>>
  /\ UNCHANGED <<read_by_line, start_line_num, processing_records,
                 total_start_time, file, now, entry, runs, san>>

\* self.tts.infer raises: nothing catches it in process_single_line,
\* process_full_text, process_batch or main
InferRaise ==
  /\ pc = "infer"
  /\ infer_calls' = SetLastStatus(infer_calls, "raised")
  /\ pc' = "crashed"
  /\ UNCHANGED <<read_by_line, start_line_num, total_char_count,
                 processing_records, total_start_time, log, file, idx,
                 line_counter, cur, now, entry, runs, san>>

\* get_audio_duration(output_path), the record, its append and what follows
\* up to the next call of the engine or the end of process_batch
\* (lines 191-204 / 243-256, 381, 402, 406-416)
Probe(outcome) ==
  /\ pc = "probe"
  /\ LET r == GetAudioDuration(outcome)
         record == [ line_num       |-> cur.line_num,
                     char_count     |-> cur.char_count,
                     elapsed_time   |-> cur.elapsed,
                     audio_duration |-> r.duration ]
         lg == log
               \o (IF r.warned
                   THEN << LogEntry("warn_duration", cur.output_path) >>
                   ELSE <<>>)
               \o << LogEntry("unit_done", cur.output_filename) >>
         recs == AppendRecord(processing_records, record)
     IN /\ processing_records' = recs
        /\ IF read_by_line
           THEN LoopFrom(file, idx + 1, line_counter, recs, lg, infer_calls,
                         total_start_time)
           ELSE /\ Complete(recs, lg, infer_calls, total_start_time)
                /\ UNCHANGED <<idx, line_counter>>
  /\ UNCHANGED <<read_by_line, start_line_num, total_start_time, file, now,
                 entry, runs, san>>

Next ==
  \/ \E f \in Files : ProcessBatch(f)
  \/ \E d \in InferTimes : InferReturn(d)
  \/ InferRaise
  \/ \E o \in ProbeOutcomes : Probe(o)

\* the processor may be used again after process_batch has returned
Spec == Init /\ [][Next]_vars

\* process_batch on a processor that has not run it before, as main() runs it
FirstProcessBatch(f) == runs = 0 /\ ProcessBatch(f)

FreshNext ==
  \/ \E f \in Files : FirstProcessBatch(f)
  \/ \E d \in InferTimes : InferReturn(d)
  \/ InferRaise
  \/ \E o \in ProbeOutcomes : Probe(o)

FreshSpec == Init /\ [][FreshNext]_vars

\* ------------------------------------------- sanitize_filename on its own
SanInit ==
  /\ read_by_line = TRUE
  /\ start_line_num = 1
  /\ total_char_count = 0
  /\ processing_records = <<>>
  /\ total_start_time = 0
  /\ log = <<>>
  /\ pc = "san"
  /\ file = <<>>
  /\ idx = 0
  /\ line_counter = 0
  /\ cur = NoUnit
  /\ now = 0
  /\ infer_calls = <<>>
  /\ entry = NoEntry
  /\ runs = 0
  /\ san \in { [stage |-> 0, text |-> t, once |-> <<>>, twice |-> <<>>] :
               t \in SanStrings }

SanUnchanged ==
  UNCHANGED <<read_by_line, start_line_num, total_char_count,
              processing_records, total_start_time, log, pc, file, idx,
              line_counter, cur, now, infer_calls, entry, runs>>

\* sanitize_filename(text)
SanitizeOnce ==
  /\ pc = "san"
  /\ san.stage = 0
  /\ san' = [san EXCEPT !.stage = 1, !.once = sanitize_filename(san.text)]
  /\ SanUnchanged

\* sanitize_filename(sanitize_filename(text))
SanitizeTwice ==
  /\ pc = "san"
  /\ san.stage = 1
  /\ san' = [san EXCEPT !.stage = 2, !.twice = sanitize_filename(san.once)]
  /\ SanUnchanged

SanNext == SanitizeOnce \/ SanitizeTwice

SanSpec == SanInit /\ [][SanNext]_vars

\* ------------------------------------------------------------- properties
\* the records the current invocation of process_batch has appended
RunRecords ==
  SubSeq(processing_records, entry.n_records + 1, Len(processing_records))

\* the log lines the current invocation has written
RunLog == SubSeq(log, entry.log_len + 1, Len(log))

\* process_batch has been invoked and has returned
RunComplete == pc = "idle" /\ runs > 0

\* the units of the input: its lines that are not empty after trimming
Units == StrippedLines(file)

\* number of engine calls of the current invocation that have not ended
InFlight == Cardinality({k \in 1..Len(infer_calls) : infer_calls[k].status = "pending"})

HasKind(lg, kind) == \E i \in 1..Len(lg) : lg[i].kind = kind

CountKind(lg, kind) == Cardinality({i \in 1..Len(lg) : lg[i].kind = kind})

RECURSIVE SumCharCount(_)
SumCharCount(rows) ==
  IF rows = <<>> THEN 0 ELSE rows[1].char_count + SumCharCount(Tail(rows))

RECURSIVE SumLen(_)
SumLen(texts) ==
  IF texts = <<>> THEN 0 ELSE Len(texts[1]) + SumLen(Tail(texts))

IsPrefix(s, t) == Len(s) <= Len(t) /\ SubSeq(t, 1, Len(s)) = s

\* C1: in every report and summary line printed, total_char_count equals the
\* sum of char_count over the records the report lists (all records in
\* processing_records when it is rendered).
C1_TotalIsSumOfRecords ==
  \A i \in 1..Len(log) :
    /\ log[i].kind = "report" =>
         /\ log[i].val.total_char_count = SumCharCount(log[i].val.rows)
         /\ log[i - 1].kind = "summary"
         /\ log[i - 1].val.total_char_count = SumCharCount(log[i].val.rows)

\* C2: in per-line mode the k-th record appended by a run has label
\* start_line_num + k (k from 0), and it is the record of the k-th line that
\* is not empty after trimming: blank lines get no record and no ordinal.
C2_OrdinalsFromOffset ==
  read_by_line =>
    /\ Len(RunRecords) <= Len(Units)
    /\ \A k \in 1..Len(RunRecords) :
         /\ RunRecords[k].line_num = start_line_num + (k - 1)
         /\ RunRecords[k].char_count = Len(Units[k])
    /\ RunComplete => Len(RunRecords) = Len(Units)

\* a completed run over non-empty, blank, non-empty with offset 10
C2_Witness ==
  /\ read_by_line
  /\ RunComplete
  /\ start_line_num = 10
  /\ file = <<LineA, BlankLine, LineB>>
  /\ Len(RunRecords) = 2
  /\ RunRecords[2].line_num = 11

\* C3: a whole-text run over an input with a non-empty line calls the engine
\* exactly once and appends exactly one record, labelled with the whole-text
\* sentinel, whose char_count is the sum of the trimmed lengths of the
\* non-empty lines plus their number minus 1.
C3_WholeTextOneUnit ==
  (~read_by_line /\ runs > 0 /\ Units # <<>>) =>
    /\ Len(infer_calls) = 1
    /\ Len(infer_calls[1].text) = SumLen(Units) + Len(Units) - 1
    /\ \A k \in 1..Len(Units) :
         SubSeq(infer_calls[1].text,
                SumLen(SubSeq(Units, 1, k - 1)) + k,
                SumLen(SubSeq(Units, 1, k)) + k - 1) = Units[k]
    /\ \A k \in 1..(Len(Units) - 1) :
         infer_calls[1].text[SumLen(SubSeq(Units, 1, k)) + k] = " "
    /\ Len(RunRecords) <= 1
    /\ RunComplete =>
         /\ Len(RunRecords) = 1
         /\ RunRecords[1].line_num = FullTextLabel
         /\ RunRecords[1].char_count = SumLen(Units) + Len(Units) - 1

\* a completed whole-text run over two non-empty lines around a blank one
C3_Witness ==
  /\ ~read_by_line
  /\ RunComplete
  /\ file = <<LineA, BlankLine, LineB>>
  /\ Len(RunRecords) = 1
  /\ RunRecords[1].char_count = 22

\* C4: a whole-text run over an input whose lines are all blank appends no
\* record, never calls the engine, logs the warning and completes with a
\* summary and a report showing total_char_count 0 and both total ratios 0.
C4_BlankInputZeroTotals ==
  (~read_by_line /\ runs > 0 /\ Units = <<>>) =>
    /\ RunComplete
    /\ RunRecords = <<>>
    /\ infer_calls = <<>>
    /\ HasKind(RunLog, "warn_empty")
    /\ log[Len(log)].kind = "report"
    /\ log[Len(log)].val.total_char_count = 0
    /\ log[Len(log)].val.total_ratio = 0
    /\ log[Len(log)].val.total_time_ratio = 0
    /\ log[Len(log) - 1].kind = "summary"
    /\ log[Len(log) - 1].val.total_char_count = 0

\* C5: within one run no two calls of the engine are given the same
\* output path.
C5_DistinctOutputPaths ==
  \A i, j \in 1..Len(infer_calls) :
    i # j => infer_calls[i].output_path # infer_calls[j].output_path

\* two units of one per-line run with different text and the same
\* sanitized ten-character prefix, both written
C5_Witness ==
  /\ read_by_line
  /\ Len(infer_calls) >= 2
  /\ infer_calls[1].text # infer_calls[2].text
  /\ sanitize_filename(Take(infer_calls[1].text, PrefixLen))
       = sanitize_filename(Take(infer_calls[2].text, PrefixLen))
  /\ infer_calls[1].status = "returned"
  /\ infer_calls[2].status = "returned"

\* C6: once the engine has raised on unit k the run is over: the call that
\* raised is the last call made, the records of the run are those of units
\* 1..k-1, the log holds their completion lines and neither a summary nor a
\* report.
C6_EngineFailureIsFatal ==
  \A k \in 1..Len(infer_calls) :
    infer_calls[k].status = "raised" =>
      /\ pc = "crashed"
      /\ k = Len(infer_calls)
      /\ Len(RunRecords) = k - 1
      /\ \A i \in 1..(k - 1) :
           /\ infer_calls[i].status = "returned"
           /\ RunRecords[i].char_count = Len(infer_calls[i].text)
      /\ CountKind(RunLog, "unit_done") = k - 1
      /\ CountKind(RunLog, "unit_start") = k
      /\ ~HasKind(RunLog, "summary")
      /\ ~HasKind(RunLog, "report")

\* the engine raised on the second of three units
C6_Witness ==
  /\ pc = "crashed"
  /\ Len(Units) = 3
  /\ Len(infer_calls) = 2
  /\ infer_calls[2].status = "raised"
  /\ Len(RunRecords) = 1

C7_Sequential ==
  /\ InFlight <= 1
  /\ \A k \in 1..Len(infer_calls) :
       /\ k < Len(infer_calls) => infer_calls[k].status = "returned"
       /\ k <= Len(Units)
       /\ read_by_line => infer_calls[k].text = Units[k]
  /\ pc = "infer" =>
       /\ InFlight = 1
       /\ Len(RunRecords) = Len(infer_calls) - 1
  /\ pc = "idle" => Len(RunRecords) = Len(infer_calls)
  /\ \A k \in 1..Len(RunRecords) :
       /\ RunRecords[k].char_count = Len(infer_calls[k].text)
       /\ read_by_line => RunRecords[k].char_count = Len(Units[k])

C7_AppendOnly == IsPrefix(processing_records, processing_records')

\* C7: at most one engine call is in progress; the call for a unit is made
\* only when every earlier call has returned and its record is appended;
\* processing_records only grows at its end, in the order of the non-empty
\* lines of the input.
C7_SequentialInOrder == [](C7_Sequential) /\ [][C7_AppendOnly]_vars

\* the second unit is with the engine, the first unit's record is appended
C7_Witness ==
  /\ read_by_line
  /\ pc = "infer"
  /\ Len(infer_calls) = 2
  /\ infer_calls[1].text # infer_calls[2].text
  /\ Len(RunRecords) = 1

\* C8: a failed duration probe is logged as a warning and gives the unit a
\* record with audio_duration 0; the run goes on to its other units and to
\* its report, where a zero audio_duration gives time_ratio 0 and a zero
\* total audio duration gives total time_ratio 0.
C8_ProbeFailureRecovered ==
  /\ pc = "crashed" =>
       infer_calls # <<>> /\ infer_calls[Len(infer_calls)].status = "raised"
  /\ \A i \in 1..Len(log) :
       /\ log[i].kind = "warn_duration" =>
            /\ i < Len(log)
            /\ log[i + 1].kind = "unit_done"
       /\ log[i].kind = "report" =>
            /\ \A r \in 1..Len(log[i].val.rows) :
                 log[i].val.rows[r].audio_duration = ZeroFloat
                   => log[i].val.rows[r].time_ratio = 0
            /\ log[i].val.total_audio_duration = ZeroFloat
                 => log[i].val.total_time_ratio = 0
  /\ CountKind(RunLog, "unit_done") = Len(RunRecords)
  /\ CountKind(RunLog, "warn_duration")
       <= Cardinality({k \in 1..Len(RunRecords) : RunRecords[k].audio_duration = ZeroFloat})
  /\ (RunComplete /\ read_by_line) => Len(RunRecords) = Len(Units)

\* a completed per-line run of two units whose first probe failed and whose
\* second probe succeeded
C8_Witness ==
  /\ read_by_line
  /\ RunComplete
  /\ Len(RunRecords) = 2
  /\ RunRecords[1].audio_duration = ZeroFloat
  /\ RunRecords[2].audio_duration = [m |-> <<1, 1>>, e |-> 0 - 1]
  /\ CountKind(RunLog, "warn_duration") = 1
  /\ log[Len(log)].kind = "report"
  /\ log[Len(log)].val.rows[1].time_ratio = 0

\* C9: every invocation of process_batch finds total_char_count 0 and no
\* records on entry.
C9_AccumulatorFreshOnEntry ==
  /\ entry.n_records = 0
  /\ entry.total_char_count = 0

NoIllegalChar(text) == \A i \in 1..Len(text) : text[i] \notin IllegalChars

Trimmed(text) ==
  text = <<>> \/ (text[1] \notin Whitespace /\ text[Len(text)] \notin Whitespace)

\* C10: sanitize_filename applied to its own result returns it unchanged;
\* the result holds none of < > : " / \ | ? * and neither starts nor ends
\* with whitespace.
C10_SanitizeIdempotent ==
  /\ san.stage >= 1 => (NoIllegalChar(san.once) /\ Trimmed(san.once))
  /\ san.stage = 2 => san.twice = san.once

\* an input whose illegal character hides whitespace from the trim
C10_Witness ==
  /\ san.stage = 2
  /\ san.text = <<"a", " ", "?">>
  /\ san.once = <<"a">>
  /\ san.twice = <<"a">>

====
